---- MODULE Spec2Model ----
(***************************************************************************)
(* Model of the Daily Motivation API (src/main.py): one JSON file holding  *)
(* a single user profile, four request handlers, a text generator with a   *)
(* fixed fallback and an SMTP notifier.                                    *)
(*                                                                         *)
(* Strings are sequences of characters, the profile file is the sequence   *)
(* of symbols json.dump writes (braces, keys, quotes, characters; the      *)
(* separators and the indentation, whose count is the same in every        *)
(* document of one shape, are left out), and json.load is a parser of      *)
(* that sequence.                                                          *)
(***************************************************************************)
EXTENDS Integers, Sequences, FiniteSets, TLC

VARIABLES
    exists,     \* os.path.exists(JSON_FILE)
    file,       \* the content of JSON_FILE
    call,       \* the request answered last: handler, payload, what the
                \* generation API and the SMTP session did, the message built
    response,   \* what that request returned or raised
    created,    \* create_user has been called
    tpc,        \* update_user in a worker thread: where the thread is
    tupdate,    \* ... its parameter update
    tread,      \* ... its local data, as read_data returned it
    tdata,      \* ... its local data, after the two assignments
    tresp       \* ... what it returned or raised

vars == <<exists, file, call, response, created,
          tpc, tupdate, tread, tdata, tresp>>

thrVars == <<tpc, tupdate, tread, tdata, tresp>>

-----------------------------------------------------------------------------
(* Bounds                                                                  *)

\* longest role / about text drawn as an input
MaxStrLen == 2

Chars == {"a"}

Strs(n) == UNION {[1..k -> Chars] : k \in 0..n}

-----------------------------------------------------------------------------
(* Pydantic models                                                         *)

AboutKeys == {"background", "dreams", "challenges", "values"}
UserKeys == {"name", "role", "about"}

\* the about records drawn as inputs: all four fields the same text, and one
\* record whose fields differ
MixedAbout == [background |-> <<"a">>, dreams |-> <<>>,
               challenges |-> <<>>, values |-> <<"a">>]

About == {[k \in AboutKeys |-> s] : s \in Strs(MaxStrLen)} \cup {MixedAbout}

\* the names drawn as inputs (no handler reads or writes a name)
Names == {<<"a">>, <<"a", "a">>}

UserData == [name : Names, role : Strs(MaxStrLen), about : About]

\* UpdateData: a field left out of the record is a field that is None
UpdateData ==
    {<<>>}
    \cup {("role" :> r) : r \in Strs(MaxStrLen)}
    \cup {("about" :> a) : a \in About}
    \cup {("role" :> r) @@ ("about" :> a) : r \in Strs(MaxStrLen), a \in About}

-----------------------------------------------------------------------------
(* json.dump / json.load                                                   *)

EmptyObj == <<>>
Quote == "\""
ObjectKeys == {"user", "about"}
Keys == {"user"} \cup UserKeys \cup AboutKeys
\* the order in which the handlers insert the keys, which json keeps
KeyOrder == <<"user", "name", "role", "about",
              "background", "dreams", "challenges", "values">>

HasKey(obj, k) == \E d \in DOMAIN obj : d = k

DumpStr(s) == <<Quote>> \o s \o <<Quote>>

RECURSIVE DumpObject(_)
RECURSIVE DumpMembers(_, _)
DumpValue(k, v) == IF k \in ObjectKeys THEN DumpObject(v) ELSE DumpStr(v)

DumpMembers(obj, ks) ==
    IF ks = <<>> THEN <<>>
    ELSE (IF HasKey(obj, Head(ks))
             THEN <<Head(ks)>> \o DumpValue(Head(ks), obj[Head(ks)])
             ELSE <<>>)
         \o DumpMembers(obj, Tail(ks))

DumpObject(obj) == <<"{">> \o DumpMembers(obj, KeyOrder) \o <<"}">>

json_dump(data) == DumpObject(data)

ParseFail == [ok |-> FALSE, val |-> <<>>, rest |-> <<>>]

RECURSIVE ParseString(_, _)
ParseString(s, acc) ==
    IF s = <<>> THEN ParseFail
    ELSE IF Head(s) = Quote THEN [ok |-> TRUE, val |-> acc, rest |-> Tail(s)]
    ELSE IF Head(s) \in Chars THEN ParseString(Tail(s), Append(acc, Head(s)))
    ELSE ParseFail

RECURSIVE ParseValue(_)
RECURSIVE ParseMembers(_, _)
ParseValue(s) ==
    IF s = <<>> THEN ParseFail
    ELSE IF Head(s) = Quote THEN ParseString(Tail(s), <<>>)
    ELSE IF Head(s) = "{" THEN ParseMembers(Tail(s), EmptyObj)
    ELSE ParseFail

ParseMembers(s, acc) ==
    IF s = <<>> THEN ParseFail
    ELSE IF Head(s) = "}" THEN [ok |-> TRUE, val |-> acc, rest |-> Tail(s)]
    ELSE IF Head(s) \in Keys
         THEN LET r == ParseValue(Tail(s))
              IN  IF r.ok THEN ParseMembers(r.rest, (Head(s) :> r.val) @@ acc)
                  ELSE ParseFail
    ELSE ParseFail

\* json.load: one value and nothing after it, else JSONDecodeError
json_load(s) ==
    LET r == ParseValue(s)
    IN  IF r.ok /\ r.rest = <<>> THEN [ok |-> TRUE, val |-> r.val]
        ELSE [ok |-> FALSE, val |-> EmptyObj]

-----------------------------------------------------------------------------
(* Storage accessor                                                        *)

\* open(JSON_FILE, "w"): the file is created or cut to length 0
Truncate(f) == <<>>

\* the buffered text reaches the file in one write at close, at the offset of
\* this handle (0), over whatever the file holds by then
WriteAt0(f, bytes) == bytes \o SubSeq(f, Len(bytes) + 1, Len(f))

\* read_data with the test of os.path.exists lost: the file is reset to {}
\* on every read
read_data_Reset(ex, f) ==
    LET f1 == WriteAt0(Truncate(f), json_dump(EmptyObj))
    IN  [file |-> f1, res |-> json_load(f1)]

\* read_data: creates the file holding {} when it is missing, then json.load
read_data(ex, f) ==
    LET f1 == IF ex THEN f ELSE WriteAt0(Truncate(f), json_dump(EmptyObj))
    IN  [file |-> f1, res |-> json_load(f1)]

\* write_data with no other writer in between: open "w", json.dump, close
write_data(f, data) == WriteAt0(Truncate(f), json_dump(data))

-----------------------------------------------------------------------------
(* Message generator and notifier                                          *)

\* the hardcoded sentence of generate_motivation, as words
Fallback == <<"You've", " ", "already", " ", "proved">>

Space == {" ", "\n"}

\* what model.generate_content can do: raise, answer nothing, answer a text
ApiTexts == { <<>>,
              <<" ", "keep", "\n">>,
              <<"*", "*", "keep", "*", "*", "\n", "going">> }

ApiResults == {[kind |-> "raise"], [kind |-> "none"]}
              \cup {[kind |-> "text", text |-> t] : t \in ApiTexts}

RECURSIVE LStrip(_)
LStrip(s) == IF s # <<>> /\ Head(s) \in Space THEN LStrip(Tail(s)) ELSE s

RECURSIVE RStrip(_)
RStrip(s) ==
    IF s # <<>> /\ s[Len(s)] \in Space THEN RStrip(SubSeq(s, 1, Len(s) - 1)) ELSE s

\* str.strip()
Strip(s) == RStrip(LStrip(s))

\* message.replace("**", "")
RECURSIVE RemoveStars(_)
RemoveStars(s) ==
    IF Len(s) >= 2 /\ s[1] = "*" /\ s[2] = "*" THEN RemoveStars(Tail(Tail(s)))
    ELSE IF s = <<>> THEN <<>>
    ELSE <<Head(s)>> \o RemoveStars(Tail(s))

\* body.replace('\n', '<br>')
RECURSIVE ReplaceNewlines(_)
ReplaceNewlines(s) ==
    IF s = <<>> THEN <<>>
    ELSE <<IF Head(s) = "\n" THEN "<br>" ELSE Head(s)>> \o ReplaceNewlines(Tail(s))

\* generate_motivation without the test of an empty answer
generate_motivation_NoEmptyCheck(about, api) ==
    IF api.kind = "raise" THEN Fallback
    ELSE IF api.kind = "none" THEN <<>>
    ELSE Strip(api.text)

\* generate_motivation: the text the try block returns for one outcome of the
\* API call (the prompt, with its tone and date, only reaches the API)
generate_motivation(about, api) ==
    IF api.kind = "raise" THEN Fallback
    ELSE IF api.kind = "none" \/ api.text = <<>> THEN Fallback
    ELSE Strip(api.text)

Recipient == "shuaibkaloor123@gmail.com"

\* the steps of the SMTP session, each of which can raise
SmtpSteps == <<"connect", "starttls", "login", "send_message">>
SmtpOutcomes == {"ok"} \cup {SmtpSteps[i] : i \in DOMAIN SmtpSteps}

\* send_email: the message built before the session is opened
send_email(subject, body, to_email) ==
    [to |-> to_email, subject |-> subject,
     html |-> <<"<p>">> \o ReplaceNewlines(body) \o <<"</p>", "<p>- Your Daily Motivation App</p>">>]

-----------------------------------------------------------------------------
(* Request handlers, one request at a time                                 *)

NotFound == [status |-> 404, detail |-> "User not found"]
BadInput == [status |-> 400, detail |-> "No about section found"]
\* what the framework answers when a handler raises anything else
ServerError == [status |-> 500, detail |-> "Internal Server Error"]

\* the trace of one request: the handler and its payload, what the generation
\* API did in it, what the SMTP session did, the messages handed to a session
Trace(op, arg) == [op |-> op, arg |-> arg, api |-> [kind |-> "notcalled"],
                   smtp |-> "notcalled", sent |-> <<>>]

\* d[k] = v on a dict
SetKey(obj, k, v) == (k :> v) @@ obj

\* dict.get(k, default)
GetKey(obj, k, default) == IF HasKey(obj, k) THEN obj[k] ELSE default

\* update_user assigning about whether or not the payload supplies it
UpdateFields_ResetAbout(data, update) ==
    LET d1 == IF HasKey(update, "role") /\ update["role"] # <<>>
              THEN SetKey(data, "user", SetKey(data["user"], "role", update["role"]))
              ELSE data
    IN  SetKey(d1, "user",
               SetKey(d1["user"], "about", GetKey(update, "about", EmptyObj)))

\* update_user assigning about to the document instead of the user
UpdateFields_TopLevelAbout(data, update) ==
    LET d1 == IF HasKey(update, "role") /\ update["role"] # <<>>
              THEN SetKey(data, "user", SetKey(data["user"], "role", update["role"]))
              ELSE data
    IN  IF HasKey(update, "about") THEN SetKey(d1, "about", update["about"]) ELSE d1

\* update_user without the assignment of role
UpdateFields_IgnoreRole(data, update) ==
    IF HasKey(update, "about")
    THEN SetKey(data, "user", SetKey(data["user"], "about", update["about"]))
    ELSE data

\* update_user testing role against None instead of for truth
UpdateFields_RoleNotNone(data, update) ==
    LET d1 == IF HasKey(update, "role")
              THEN SetKey(data, "user", SetKey(data["user"], "role", update["role"]))
              ELSE data
    IN  IF HasKey(update, "about")
        THEN SetKey(d1, "user", SetKey(d1["user"], "about", update["about"]))
        ELSE d1

\* the two conditional assignments of update_user
UpdateFields(data, update) ==
    LET d1 == IF HasKey(update, "role") /\ update["role"] # <<>>
              THEN SetKey(data, "user", SetKey(data["user"], "role", update["role"]))
              ELSE data
    IN  IF HasKey(update, "about")
        THEN SetKey(d1, "user", SetKey(d1["user"], "about", update["about"]))
        ELSE d1

\* create_user keeping a profile that is already stored
create_user_IfAbsent(user) ==
    LET r == read_data(exists, file)
        data == [user |-> user]
    IN  /\ exists' = TRUE
        /\ file' = IF r.res.ok /\ HasKey(r.res.val, "user") THEN r.file
                   ELSE write_data(r.file, data)
        /\ response' = [status |-> 200, message |-> "User data saved successfully",
                        data |-> user]
        /\ call' = Trace("create_user", user)
        /\ created' = TRUE
        /\ UNCHANGED thrVars

create_user(user) ==
    LET data == [user |-> user]
    IN  /\ exists' = TRUE
        /\ file' = write_data(file, data)
        /\ response' = [status |-> 200, message |-> "User data saved successfully",
                        data |-> user]
        /\ call' = Trace("create_user", user)
        /\ created' = TRUE
        /\ UNCHANGED thrVars

\* get_user without the test for "user"
get_user_NoCheck ==
    LET r == read_data(exists, file)
    IN  /\ exists' = TRUE
        /\ file' = r.file
        /\ response' = IF ~r.res.ok THEN ServerError
                       ELSE [status |-> 200, data |-> GetKey(r.res.val, "user", EmptyObj)]
        /\ call' = Trace("get_user", <<>>)
        /\ UNCHANGED created
        /\ UNCHANGED thrVars

get_user ==
    LET r == read_data(exists, file)
    IN  /\ exists' = TRUE
        /\ file' = r.file
        /\ response' = IF ~r.res.ok THEN ServerError
                       ELSE IF ~HasKey(r.res.val, "user") THEN NotFound
                       ELSE [status |-> 200, data |-> r.res.val["user"]]
        /\ call' = Trace("get_user", <<>>)
        /\ UNCHANGED created
        /\ UNCHANGED thrVars

update_user(update) ==
    LET r == read_data(exists, file)
        data == UpdateFields(r.res.val, update)
    IN  /\ exists' = TRUE
        /\ call' = Trace("update_user", update)
        /\ IF ~r.res.ok
              THEN file' = r.file /\ response' = ServerError
           ELSE IF ~HasKey(r.res.val, "user")
              THEN file' = r.file /\ response' = NotFound
           ELSE /\ file' = write_data(r.file, data)
                /\ response' = [status |-> 200,
                                message |-> "User data updated successfully",
                                data |-> data["user"]]
        /\ UNCHANGED created
        /\ UNCHANGED thrVars

\* the about test asking for a field with text in it
AboutMissing_NoText(about) == \A k \in AboutKeys : GetKey(about, k, <<>>) = <<>>

\* if not about
AboutMissing(about) == DOMAIN about = {}

\* motivation catching what send_email raises
MotivationResponse_Caught(message, smtp) ==
    [status |-> 200, motivation |-> message, email_sent_to |-> Recipient]

\* the end of motivation: send_email raises, or the handler returns
MotivationResponse(message, smtp) ==
    IF smtp # "ok" THEN ServerError
    ELSE [status |-> 200, motivation |-> message, email_sent_to |-> Recipient]

motivation(api, smtp) ==
    LET r == read_data(exists, file)
        about == GetKey(r.res.val["user"], "about", EmptyObj)
        message == RemoveStars(generate_motivation(about, api))
        mail == send_email("Your Daily Motivation", message, Recipient)
    IN  /\ exists' = TRUE
        /\ file' = r.file
        /\ UNCHANGED created
        /\ UNCHANGED thrVars
        /\ IF ~r.res.ok
              THEN response' = ServerError /\ call' = Trace("motivation", <<>>)
           ELSE IF ~HasKey(r.res.val, "user")
              THEN response' = NotFound /\ call' = Trace("motivation", <<>>)
           ELSE IF AboutMissing(about)
              THEN response' = BadInput /\ call' = Trace("motivation", <<>>)
           ELSE /\ call' = [op |-> "motivation", arg |-> <<>>, api |-> api,
                            smtp |-> smtp, sent |-> <<mail>>]
                /\ response' = MotivationResponse(message, smtp)

-----------------------------------------------------------------------------
(* The service answering one request after another                         *)

Threads == {1, 2}

NoResponse == [status |-> 0]

IdleThreads ==
    /\ tpc = [t \in Threads |-> "idle"]
    /\ tupdate = [t \in Threads |-> <<>>]
    /\ tread = [t \in Threads |-> EmptyObj]
    /\ tdata = [t \in Threads |-> EmptyObj]
    /\ tresp = [t \in Threads |-> NoResponse]

\* the process starts with no profile file, or with one holding {}
Init ==
    /\ exists \in BOOLEAN
    /\ file = IF exists THEN json_dump(EmptyObj) ELSE <<>>
    /\ call = Trace("none", <<>>)
    /\ response = NoResponse
    /\ created = FALSE
    /\ IdleThreads

Next ==
    \/ \E user \in UserData : create_user(user)
    \/ get_user
    \/ \E update \in UpdateData : update_user(update)
    \/ \E api \in ApiResults, smtp \in SmtpOutcomes : motivation(api, smtp)

Spec == Init /\ [][Next]_vars

-----------------------------------------------------------------------------
(* Two update_user requests in the worker threads of the framework, one    *)
(* supplying only role and one only about, against a stored profile. Each  *)
(* handler runs its file operations in program order; the threads          *)
(* interleave between them.                                                *)

\* data = read_data(), the check for "user", the two assignments
ThreadRead(t) ==
    LET r == read_data(exists, file)
    IN  /\ tpc[t] = "start"
        /\ exists' = TRUE
        /\ file' = r.file
        /\ IF ~r.res.ok
              THEN /\ tpc' = [tpc EXCEPT ![t] = "done"]
                   /\ tresp' = [tresp EXCEPT ![t] = ServerError]
                   /\ UNCHANGED <<tread, tdata>>
           ELSE IF ~HasKey(r.res.val, "user")
              THEN /\ tpc' = [tpc EXCEPT ![t] = "done"]
                   /\ tresp' = [tresp EXCEPT ![t] = NotFound]
                   /\ UNCHANGED <<tread, tdata>>
           ELSE /\ tpc' = [tpc EXCEPT ![t] = "open"]
                /\ tread' = [tread EXCEPT ![t] = r.res.val]
                /\ tdata' = [tdata EXCEPT ![t] = UpdateFields(r.res.val, tupdate[t])]
                /\ UNCHANGED tresp
        /\ UNCHANGED <<tupdate, call, response, created>>

\* write_data: open(JSON_FILE, "w")
ThreadOpen(t) ==
    /\ tpc[t] = "open"
    /\ tpc' = [tpc EXCEPT ![t] = "flush"]
    /\ file' = Truncate(file)
    /\ UNCHANGED <<exists, tupdate, tread, tdata, tresp, call, response, created>>

\* write_data: json.dump and the close that writes the buffer; then the return
ThreadFlush(t) ==
    /\ tpc[t] = "flush"
    /\ tpc' = [tpc EXCEPT ![t] = "done"]
    /\ file' = WriteAt0(file, json_dump(tdata[t]))
    /\ tresp' = [tresp EXCEPT ![t] = [status |-> 200,
                                      message |-> "User data updated successfully",
                                      data |-> tdata[t]["user"]]]
    /\ UNCHANGED <<exists, tupdate, tread, tdata, call, response, created>>

InitConc ==
    /\ exists = TRUE
    /\ \E user \in UserData : file = write_data(<<>>, [user |-> user])
    /\ call = Trace("none", <<>>)
    /\ response = NoResponse
    /\ created = TRUE
    /\ tpc = [t \in Threads |-> "start"]
    /\ \E r \in Strs(MaxStrLen), a \in About :
          tupdate = (1 :> ("role" :> r)) @@ (2 :> ("about" :> a))
    /\ tread = [t \in Threads |-> EmptyObj]
    /\ tdata = [t \in Threads |-> EmptyObj]
    /\ tresp = [t \in Threads |-> NoResponse]

NextConc ==
    \/ \E t \in Threads : ThreadRead(t)
    \/ \E t \in Threads : ThreadOpen(t)
    \/ \E t \in Threads : ThreadFlush(t)

SpecConc == InitConc /\ [][NextConc]_vars

-----------------------------------------------------------------------------
(* Properties                                                              *)

\* what json.load makes of the file as it is now
Stored == json_load(file)

HasUser == exists /\ Stored.ok /\ HasKey(Stored.val, "user")

KeySet(obj) == {k \in Keys : HasKey(obj, k)}

OnlyRole(u) == HasKey(u, "role") /\ ~HasKey(u, "about")
OnlyAbout(u) == HasKey(u, "about") /\ ~HasKey(u, "role")

SmtpFailures == SmtpOutcomes \ {"ok"}

\* C1: create_user(p) answers 200 and leaves the stored document equal to
\* {"user": p}, whatever the store held before, and a get_user that comes
\* next answers 200 with exactly p under data.
C1_CreateOverwritesThenGetReturns ==
    [][ /\ call'.op = "create_user" =>
              /\ response'.status = 200
              /\ response'.data = call'.arg
              /\ exists'
              /\ \A after \in {file'} :
                    json_load(after) = [ok |-> TRUE, val |-> [user |-> call'.arg]]
        /\ (call.op = "create_user" /\ call'.op = "get_user") =>
              response' = [status |-> 200, data |-> call.arg] ]_vars

C1_Witness ==
    /\ call.op = "get_user"
    /\ created
    /\ response.status = 200
    /\ response.data = Stored.val["user"]

\* C2: with a profile stored, update_user with only role leaves about and
\* name as they were, with only about leaves role and name as they were, and
\* with neither leaves the whole profile as it was.
C2_UpdateFrame ==
    [][ (HasUser /\ call'.op = "update_user") =>
          \A u \in {call'.arg}, after \in {file'} :
          LET old == Stored.val["user"]
              new == json_load(after).val["user"]
          IN  /\ json_load(after).ok
              /\ new["name"] = old["name"]
              /\ OnlyRole(u) => new["about"] = old["about"]
              /\ OnlyAbout(u) => new["role"] = old["role"]
              /\ (~HasKey(u, "role") /\ ~HasKey(u, "about")) => new = old ]_vars

C2_Witness ==
    /\ call.op = "update_user"
    /\ response.status = 200
    /\ OnlyRole(call.arg)
    /\ call.arg["role"] # <<>>
    /\ Stored.val["user"]["role"] = call.arg["role"]
    /\ Stored.val["user"]["about"] = MixedAbout

\* C3: as long as no create_user has been called, every get_user, update_user
\* and motivation answers 404 'User not found', the store holds no profile,
\* and no generation call was made and no message handed to SMTP.
C3_NotFoundBeforeCreate ==
    ~created =>
        /\ ~HasUser
        /\ call.op \in {"get_user", "update_user", "motivation"} =>
              /\ response.status = 404
              /\ response.detail = "User not found"
        /\ call.api.kind = "notcalled"
        /\ call.smtp = "notcalled"
        /\ call.sent = <<>>

C3_Witness ==
    /\ ~created
    /\ call.op = "motivation"
    /\ response.status = 404
    /\ Stored = [ok |-> TRUE, val |-> EmptyObj]

IsText(v) == v \in Seq(Chars)

WellFormedProfile(user) ==
    /\ KeySet(user) = UserKeys
    /\ IsText(user["name"])
    /\ IsText(user["role"])
    /\ KeySet(user["about"]) = AboutKeys
    /\ \A k \in AboutKeys : IsText(user["about"][k])

\* C4: the stored document is {} or has the one key "user" whose value has
\* exactly name, role and about, about having exactly background, dreams,
\* challenges and values (before the first read the file may not exist).
C4_StoredDocumentShape ==
    IF ~exists THEN file = <<>>
    ELSE /\ Stored.ok
         /\ \/ KeySet(Stored.val) = {}
            \/ /\ KeySet(Stored.val) = {"user"}
               /\ WellFormedProfile(Stored.val["user"])

C4_Witness ==
    /\ call.op = "update_user"
    /\ response.status = 200
    /\ HasKey(call.arg, "about")
    /\ HasKey(call.arg, "role")
    /\ KeySet(Stored.val) = {"user"}
    /\ Stored.val["user"]["about"] = call.arg["about"]

GenerationFailed ==
    /\ call.op = "motivation"
    /\ \/ call.api.kind \in {"raise", "none"}
       \/ call.api.kind = "text" /\ call.api.text = <<>>

FallbackMail == send_email("Your Daily Motivation", Fallback, Recipient)

\* C5 as stated: when the generation API raises or answers nothing, the
\* fallback sentence is the emailed body and the motivation field, and the
\* request returns 200.
C5_Original ==
    GenerationFailed =>
        /\ call.sent = <<FallbackMail>>
        /\ response.status = 200
        /\ response.motivation = Fallback

\* C5 amended: when the generation API raises or answers nothing, the
\* fallback sentence is the body handed to send_email, and the request
\* returns 200 with it as the motivation field unless the SMTP session fails.
C5_FallbackUsed ==
    GenerationFailed =>
        /\ call.sent = <<FallbackMail>>
        /\ call.smtp = "ok" =>
              response = [status |-> 200, motivation |-> Fallback,
                          email_sent_to |-> Recipient]

C5_Witness ==
    /\ call.op = "motivation"
    /\ call.api.kind = "raise"
    /\ call.smtp = "ok"
    /\ response.status = 200
    /\ response.motivation = Fallback

\* C6: once create_user has been called the store holds a profile in every
\* later state, whatever calls follow and whether they fail, and get_user
\* never answers NotFound again.
C6_ProfileNeverRemoved ==
    created =>
        /\ HasUser
        /\ call.op = "get_user" => response.status = 200

C6_Witness ==
    /\ created
    /\ call.op = "motivation"
    /\ call.smtp \in SmtpFailures
    /\ response.status = 500
    /\ HasUser

BothUpdated == \A t \in Threads : tresp[t].status = 200

\* both requests read the same document, and each one's change is a change
RacingUpdates ==
    /\ BothUpdated
    /\ tread[1] = tread[2]
    /\ tupdate[1]["role"] # <<>>
    /\ tupdate[1]["role"] # tread[1]["user"]["role"]
    /\ tupdate[2]["about"] # tread[2]["user"]["about"]

RoleStored == Stored.val["user"]["role"] = tupdate[1]["role"]
AboutStored == Stored.val["user"]["about"] = tupdate[2]["about"]

\* C7: when two concurrent update_user requests, one with only role and one
\* with only about, both read the profile before either wrote it and both
\* return 200, the file (when it still parses) holds exactly one of the two
\* changes: the other is lost.
C7_OneChangeSurvives ==
    (RacingUpdates /\ Stored.ok) =>
        /\ \/ RoleStored /\ ~AboutStored
           \/ AboutStored /\ ~RoleStored
        /\ Stored.val \in {tdata[1], tdata[2]}

C7_LostUpdate ==
    /\ RacingUpdates
    /\ Stored.ok
    /\ RoleStored
    /\ Stored.val["user"]["about"] = tread[2]["user"]["about"]
    /\ tresp[2].data["about"] = tupdate[2]["about"]

\* C8: when the SMTP session fails at any step, motivation ends as a server
\* error with no motivation or email_sent_to in the answer, one message was
\* handed to one session, and the stored profile is as it was.
C8_SmtpFailurePropagates ==
    [][ (call'.op = "motivation" /\ call'.smtp \in SmtpFailures) =>
          /\ HasUser
          /\ response'.status = 500
          /\ ~HasKey(response', "motivation")
          /\ ~HasKey(response', "email_sent_to")
          /\ Len(call'.sent) = 1
          /\ file' = file ]_vars

C8_Witness ==
    /\ call.op = "motivation"
    /\ call.smtp = "login"
    /\ response.status = 500
    /\ Len(call.sent) = 1
    /\ HasUser

\* C9: with a profile stored, update_user writes the payload's role exactly
\* when it is a non-empty string, replaces the whole about by the payload's
\* when the payload has one, and returns the profile as stored after the call.
C9_UpdateEffect ==
    [][ (HasUser /\ call'.op = "update_user") =>
          \A u \in {call'.arg}, after \in {file'} :
          LET old == Stored.val["user"]
              new == json_load(after).val["user"]
          IN  /\ response'.status = 200
              /\ new["role"] = (IF HasKey(u, "role") /\ u["role"] # <<>>
                                 THEN u["role"] ELSE old["role"])
              /\ new["about"] = (IF HasKey(u, "about") THEN u["about"]
                                  ELSE old["about"])
              /\ response'.data = new ]_vars

C9_Witness ==
    /\ call.op = "update_user"
    /\ response.status = 200
    /\ HasKey(call.arg, "role")
    /\ call.arg["role"] = <<>>
    /\ Stored.val["user"]["role"] # <<>>
    /\ HasKey(call.arg, "about")
    /\ Stored.val["user"]["about"] = call.arg["about"]

\* C10: motivation never answers 400: whenever a profile is stored its about
\* has the four fields, and motivation goes on to the generator and the SMTP
\* session even when the four fields are empty strings.
C10_NoBadInput ==
    /\ call.op = "motivation" => response.status # 400
    /\ HasUser => KeySet(Stored.val["user"]["about"]) = AboutKeys
    /\ (call.op = "motivation" /\ HasUser) =>
          /\ call.api.kind # "notcalled"
          /\ Len(call.sent) = 1

C10_Witness ==
    /\ call.op = "motivation"
    /\ response.status = 200
    /\ HasUser
    /\ \A k \in AboutKeys : Stored.val["user"]["about"][k] = <<>>

====
